---------------------------- MODULE Spec2Model ----------------------------
(***************************************************************************)
(* A model of gosh (src/gosh.go, the current version of the package:       *)
(* lines 401-798): the HTTPStreamWriter that frames log bytes into         *)
(* newline-terminated records and posts each one from its own goroutine,   *)
(* and the Shell that runs a command (Exec, Stream) and logs its output.   *)
(*                                                                         *)
(* Bytes are 1-tuples of a one-character string (NL is the newline); the   *)
(* newline-free text of one serialized log event is a single 3-tuple.      *)
(***************************************************************************)
EXTENDS Integers, Sequences, FiniteSets, TLC

VARIABLES
    buffer,      \* HTTPStreamWriter.buffer: the bytes not yet framed
    mutex,       \* HTTPStreamWriter.mutex: the thread holding it, or NoThread
    wg,          \* HTTPStreamWriter.wg: the WaitGroup counter
    deliveries,  \* the delivery goroutines, in launch order
    localOut,    \* what has been written to os.Stdout, one entry per write
    pc,          \* where each thread is
    arg,         \* the p of the Write a thread is in
    cont,        \* where a thread continues when its Write or Close returns
    ret,         \* what the Write or Close a thread is returning from returns
    remaining,   \* Close's local variable of that name
    url,         \* HTTPStreamWriter.url: "valid" or "invalid" (does not parse)
    inputs,      \* the byte strings the clients of this run pass to Write
    calls,       \* number of Write and Close calls the clients have made
    written,     \* history: all bytes appended to the buffer, in order
    quiet,       \* history: no other call has overlapped this thread's Close
    mark,        \* history: deliveries launched when this thread's Wait returned
    flushed,     \* history: how many bytes had been written at Close's last Reset
    command,     \* Shell.command: "" until Command sets it
    sink,        \* where Shell.log writes: "stdout", "multi" or "http"
    op,          \* the Shell method that has been called: "Exec" or "Stream"
    proc,        \* the child process: "none", "running", "exited", "reaped"
    pend,        \* the write(2) the child process is in
    pipe,        \* the bytes in the stdout and in the stderr pipe
    scanBuf,     \* each bufio.Scanner's buffered bytes not yet returned
    scanErr,     \* why each scanner's Scan returned false: "eof", "toolong"
    swg,         \* the counter of Stream's local WaitGroup
    status,      \* the child's exit status
    result,      \* what Exec or Stream returns (stderr: Exec's local of that name)
    emitted,     \* history: the bytes the child has written to each stream
    ops,         \* number of writes the child has made
    args,        \* Shell.args
    dir,         \* Shell.dir
    env,         \* Shell.env
    httpHeaders, \* Shell.httpHeaders, which is also the writer's headers
    logKVs,      \* Shell.logKVs
    req,         \* the header of the request a delivery goroutine built last
    trace        \* history: the builder calls made on the Shell, in order

writerVars == <<buffer, mutex, wg, deliveries, localOut>>
threadVars == <<pc, arg, cont, ret, remaining>>
histVars == <<calls, written, quiet, mark, flushed>>
builderVars == <<args, dir, env, httpHeaders, logKVs, trace>>
confVars == <<url, inputs, req, builderVars>>
shellVars == <<command, sink, op, proc, pend, pipe, scanBuf, scanErr, swg,
               status, result, emitted, ops>>
vars == <<writerVars, threadVars, histVars, confVars, shellVars>>

----------------------------------------------------------------------------
(* Bounds of the model. *)

\* Write and Close calls the clients of a free-standing writer make, and
\* the newlines they write in all.
MaxCalls == 3
MaxRecords == 2

\* Writes the child process makes, and the size of a pipe's buffer.
MaxOps == 3
PipeCap == 2

\* bufio.MaxScanTokenSize (64 * 1024), the size a Scanner's buffer grows
\* to, scaled down.
MaxScanTokenSize == 2

\* Builder calls made on a Shell before it is used.
MaxBuild == 3

----------------------------------------------------------------------------
(* Bytes. *)

NL == <<"\n">>
Ch(c) == <<c>>

\* The number of newlines in a byte string.
RECURSIVE CountNL(_)
CountNL(s) == IF s = <<>> THEN 0
              ELSE (IF Head(s) = NL THEN 1 ELSE 0) + CountNL(Tail(s))

HasNL(s) == \E i \in 1..Len(s) : s[i] = NL

FirstNL(s) == CHOOSE i \in 1..Len(s) : s[i] = NL /\ \A j \in 1..(i-1) : s[j] # NL

\* Faulty variant of ReadBytes: the line is returned without its newline.
ReadBytesStripped(buf) ==
    IF HasNL(buf)
    THEN [line |-> SubSeq(buf, 1, FirstNL(buf) - 1),
          rest |-> SubSeq(buf, FirstNL(buf) + 1, Len(buf)),
          err  |-> "nil"]
    ELSE [line |-> buf, rest |-> <<>>, err |-> "EOF"]

\* Faulty variant of ReadBytes: the line runs to the last newline of the buffer.
LastNL(s) == CHOOSE i \in 1..Len(s) : s[i] = NL /\ \A j \in (i+1)..Len(s) : s[j] # NL
ReadBytesToLast(buf) ==
    IF HasNL(buf)
    THEN [line |-> SubSeq(buf, 1, LastNL(buf)),
          rest |-> SubSeq(buf, LastNL(buf) + 1, Len(buf)),
          err  |-> "nil"]
    ELSE [line |-> buf, rest |-> <<>>, err |-> "EOF"]

\* bytes.Buffer.ReadBytes('\n'): the bytes up to and including the first
\* newline and a nil error, or all the bytes and io.EOF when there is none.
\* What is returned is read off (removed from) the buffer.
ReadBytes(buf) ==
    IF HasNL(buf)
    THEN [line |-> SubSeq(buf, 1, FirstNL(buf)),
          rest |-> SubSeq(buf, FirstNL(buf) + 1, Len(buf)),
          err  |-> "nil"]
    ELSE [line |-> buf, rest |-> <<>>, err |-> "EOF"]

----------------------------------------------------------------------------
(* Threads. *)

NoThread == "none"
Clients == {"c1", "c2"}
ShellThreads == {"main", "out", "err"}
Threads == Clients \cup ShellThreads

InWrite(t) == pc[t] \in {"w_lock", "w_loop", "w_ret"}
InClose(t) == pc[t] \in {"c_lock", "c_add", "c_wait", "c_ret"}

\* A thread enters Write(p) or Close(), to continue at k when it returns.
\* quiet[t] records, for a thread in Close, that no other call was running
\* when the Close was called and none has begun since.
CallWrite(t, p, k) ==
    /\ pc' = [pc EXCEPT ![t] = "w_lock"]
    /\ arg' = [arg EXCEPT ![t] = p]
    /\ cont' = [cont EXCEPT ![t] = k]
    /\ quiet' = [u \in Threads |-> FALSE]

CallClose(t, k) ==
    /\ pc' = [pc EXCEPT ![t] = "c_lock"]
    /\ cont' = [cont EXCEPT ![t] = k]
    /\ quiet' = [u \in Threads |->
                    u = t /\ \A v \in Threads \ {t} : ~InWrite(v) /\ ~InClose(v)]

----------------------------------------------------------------------------
(* HTTPStreamWriter. *)

\* What a delivery goroutine can come to: NewRequest fails, client.Do fails
\* (a transport error or the client's timeout), the collector answers with
\* a status of 400 or more, or it answers with a lower status.
Outcomes == {"req_err", "send_err", "bad_status", "ok"}
Failures == {"req_err", "send_err", "bad_status"}

\* http.NewRequest("POST", w.url, body) fails exactly when w.url does not
\* parse: for every delivery of a writer, or for none.
Possible(o) == (o = "req_err") <=> (url = "invalid")

\* go func(data []byte) {...}(line): a goroutine that has been handed data.
\* alias: data is a slice of the buffer's own array (Close passes
\* w.buffer.Bytes()), not a copy of it (ReadBytes returns a copy).
Delivery(data, src) ==
    [data |-> data, src |-> src, alias |-> (src = "close"), st |-> "running"]

Running(i) == deliveries[i].st = "running"

\* What the bytes of a slice read as once the array under it has been
\* written again.
Garbage == <<Ch("?")>>

\* The slices Close has taken of the buffer's array and that are still to
\* be read: one not yet handed to its goroutine, or one whose goroutine has
\* not finished.
AliasedUnread ==
    \/ \E u \in Threads : pc[u] = "c_add"
    \/ \E i \in 1..Len(deliveries) : deliveries[i].alias /\ Running(i)

Clobber(ds) ==
    [i \in 1..Len(ds) |->
        IF ds[i].alias /\ ds[i].st = "running"
        THEN [ds[i] EXCEPT !.data = Garbage] ELSE ds[i]]

\* Faulty variant of WriteLock: the append does not wait for the mutex.
WriteLockNoMutex(t) ==
    /\ pc[t] = "w_lock"
    /\ mutex' = t
    /\ buffer' = buffer \o arg[t]
    /\ written' = written \o arg[t]
    /\ pc' = [pc EXCEPT ![t] = "w_loop"]
    /\ UNCHANGED <<deliveries, remaining>>
    /\ UNCHANGED <<wg, localOut, arg, cont, ret, calls, quiet, mark, flushed, confVars, shellVars>>

\* Write, up to the append: w.mutex.Lock(); w.buffer.Write(p).
\* After Close's Reset the buffer writes into the array a flush delivery is
\* still reading: whether these bytes land on those depends on offsets and
\* capacity, so either may happen (a data race).
WriteLock(t) ==
    /\ pc[t] = "w_lock"
    /\ mutex = NoThread
    /\ mutex' = t
    /\ buffer' = buffer \o arg[t]
    /\ written' = written \o arg[t]
    /\ pc' = [pc EXCEPT ![t] = "w_loop"]
    /\ \E clob \in BOOLEAN :
          /\ clob => (arg[t] # <<>> /\ AliasedUnread)
          /\ deliveries' = IF clob THEN Clobber(deliveries) ELSE deliveries
          /\ remaining' = IF clob
                          THEN [u \in Threads |->
                                  IF pc[u] = "c_add" THEN Garbage ELSE remaining[u]]
                          ELSE remaining
    /\ UNCHANGED <<wg, localOut, arg, cont, ret, calls, quiet, mark, flushed, confVars, shellVars>>

\* Faulty variant of PutBack: the bytes read off are not written back.
PutBackDropped(r) == r.rest

\* w.buffer.Write(line): what ReadBytes read off without finding a newline
\* goes back into the (now empty) buffer.
PutBack(r) == r.rest \o r.line

\* A line fmt.Printf puts on os.Stdout.
Diag(text) == <<"diag", text>>

ErrorLines ==
    {<<Diag("HTTP Stream Error creating request"), NL>>,
     <<Diag("HTTP Stream Error sending request"), NL>>,
     <<Diag("HTTP Stream Error response status"), NL>>,
     <<Diag("HTTP Stream Error creating final request"), NL>>,
     <<Diag("HTTP Stream Error sending final request"), NL>>}

\* A delivery goroutine has reported a failure.
ErrorPrinted == \E k \in 1..Len(localOut) : localOut[k] \in ErrorLines

\* Faulty variant of WriteResult: a failed delivery shows in what Write returns.
WriteResultLeaky(p) ==
    [n |-> Len(p), err |-> IF ErrorPrinted THEN "delivery failed" ELSE "nil"]

\* return len(p), nil
WriteResult(p) == [n |-> Len(p), err |-> "nil"]

\* No call of the thread is returning.
NoRet == [n |-> 0, err |-> "none"]

\* Faulty variant of WriteLoop: Write returns only when nothing is in
\* flight any more.
WriteLoopSync(t) ==
    /\ pc[t] = "w_loop"
    /\ LET r == ReadBytes(buffer) IN
         IF r.err = "nil"
         THEN /\ buffer' = r.rest
              /\ wg' = wg + 1
              /\ deliveries' = Append(deliveries, Delivery(r.line, "write"))
              /\ UNCHANGED <<mutex, pc, ret>>
         ELSE /\ wg = 0
              /\ buffer' = PutBack(r)
              /\ mutex' = NoThread
              /\ ret' = [ret EXCEPT ![t] = WriteResult(arg[t])]
              /\ pc' = [pc EXCEPT ![t] = "w_ret"]
              /\ UNCHANGED <<wg, deliveries>>
    /\ UNCHANGED <<localOut, arg, cont, remaining, histVars, confVars, shellVars>>

\* Faulty variant of WriteLoop: the goroutine is started without w.wg.Add(1).
WriteLoopNoAdd(t) ==
    /\ pc[t] = "w_loop"
    /\ LET r == ReadBytes(buffer) IN
         IF r.err = "nil"
         THEN /\ buffer' = r.rest
              /\ deliveries' = Append(deliveries, Delivery(r.line, "write"))
              /\ UNCHANGED <<wg, mutex, pc, ret>>
         ELSE /\ buffer' = PutBack(r)
              /\ mutex' = NoThread
              /\ ret' = [ret EXCEPT ![t] = WriteResult(arg[t])]
              /\ pc' = [pc EXCEPT ![t] = "w_ret"]
              /\ UNCHANGED <<wg, deliveries>>
    /\ UNCHANGED <<localOut, arg, cont, remaining, histVars, confVars, shellVars>>

\* One turn of Write's loop: a complete line is read off the buffer and
\* handed to a new goroutine (w.wg.Add(1); go func(data)...(line)); when
\* there is none, what was read is written back and Write returns
\* len(p), nil, releasing the mutex (defer w.mutex.Unlock()).
WriteLoop(t) ==
    /\ pc[t] = "w_loop"
    /\ LET r == ReadBytes(buffer) IN
         IF r.err = "nil"
         THEN /\ buffer' = r.rest
              /\ wg' = wg + 1
              /\ deliveries' = Append(deliveries, Delivery(r.line, "write"))
              /\ UNCHANGED <<mutex, pc, ret>>
         ELSE /\ buffer' = PutBack(r)
              /\ mutex' = NoThread
              /\ ret' = [ret EXCEPT ![t] = WriteResult(arg[t])]
              /\ pc' = [pc EXCEPT ![t] = "w_ret"]
              /\ UNCHANGED <<wg, deliveries>>
    /\ UNCHANGED <<localOut, arg, cont, remaining, histVars, confVars, shellVars>>

\* Write's caller has the result and goes on.
WriteReturn(t) ==
    /\ pc[t] = "w_ret"
    /\ pc' = [pc EXCEPT ![t] = cont[t]]
    /\ arg' = [arg EXCEPT ![t] = <<>>]
    /\ ret' = [ret EXCEPT ![t] = NoRet]
    /\ UNCHANGED <<writerVars, cont, remaining, histVars, confVars, shellVars>>

\* Faulty variant of CloseLock: the buffer is not Reset.
CloseLockNoReset(t) ==
    /\ pc[t] = "c_lock"
    /\ mutex = NoThread
    /\ IF Len(buffer) > 0
       THEN /\ remaining' = [remaining EXCEPT ![t] = buffer]
            /\ flushed' = Len(written)
            /\ pc' = [pc EXCEPT ![t] = "c_add"]
            /\ UNCHANGED buffer
       ELSE /\ pc' = [pc EXCEPT ![t] = "c_wait"]
            /\ UNCHANGED <<remaining, buffer, flushed>>
    /\ UNCHANGED <<mutex, wg, deliveries, localOut, arg, cont, ret, calls,
                   written, quiet, mark, confVars, shellVars>>

\* Close, the locked part: with bytes in the buffer, remaining is a slice
\* of them and the buffer is Reset.
CloseLock(t) ==
    /\ pc[t] = "c_lock"
    /\ mutex = NoThread
    /\ IF Len(buffer) > 0
       THEN /\ remaining' = [remaining EXCEPT ![t] = buffer]
            /\ buffer' = <<>>
            /\ flushed' = Len(written)
            /\ pc' = [pc EXCEPT ![t] = "c_add"]
       ELSE /\ pc' = [pc EXCEPT ![t] = "c_wait"]
            /\ UNCHANGED <<remaining, buffer, flushed>>
    /\ UNCHANGED <<mutex, wg, deliveries, localOut, arg, cont, ret, calls,
                   written, quiet, mark, confVars, shellVars>>

\* Faulty variant of CloseAdd: what Close took off the buffer is let go.
CloseAddNoFlush(t) ==
    /\ pc[t] = "c_add"
    /\ remaining' = [remaining EXCEPT ![t] = <<>>]
    /\ pc' = [pc EXCEPT ![t] = "c_wait"]
    /\ UNCHANGED <<buffer, mutex, wg, deliveries, localOut, arg, cont, ret,
                   histVars, confVars, shellVars>>

\* Close, after the unlock: w.wg.Add(1); go func(data)...(remaining).
CloseAdd(t) ==
    /\ pc[t] = "c_add"
    /\ wg' = wg + 1
    /\ deliveries' = Append(deliveries, Delivery(remaining[t], "close"))
    /\ remaining' = [remaining EXCEPT ![t] = <<>>]
    /\ pc' = [pc EXCEPT ![t] = "c_wait"]
    /\ UNCHANGED <<buffer, mutex, localOut, arg, cont, ret, histVars, confVars, shellVars>>

\* Faulty variant of CloseWait: Close returns without waiting, as it once did.
CloseNoWait(t) ==
    /\ pc[t] = "c_wait"
    /\ pc' = [pc EXCEPT ![t] = "c_ret"]
    /\ ret' = [ret EXCEPT ![t] = [n |-> 0, err |-> "nil"]]
    /\ mark' = [mark EXCEPT ![t] = Len(deliveries)]
    /\ UNCHANGED <<writerVars, arg, cont, remaining, calls, written, quiet, flushed, confVars, shellVars>>

\* w.wg.Wait() unblocks once the counter is zero; return nil.
CloseWait(t) ==
    /\ pc[t] = "c_wait"
    /\ wg = 0
    /\ pc' = [pc EXCEPT ![t] = "c_ret"]
    /\ ret' = [ret EXCEPT ![t] = [n |-> 0, err |-> "nil"]]
    /\ mark' = [mark EXCEPT ![t] = Len(deliveries)]
    /\ UNCHANGED <<writerVars, arg, cont, remaining, calls, written, quiet, flushed, confVars, shellVars>>

\* Close's caller has the result and goes on.
CloseReturn(t) ==
    /\ pc[t] = "c_ret"
    /\ ret' = [ret EXCEPT ![t] = NoRet]
    /\ pc' = [pc EXCEPT ![t] = cont[t]]
    /\ quiet' = [quiet EXCEPT ![t] = FALSE]
    /\ mark' = [mark EXCEPT ![t] = 0]
    /\ UNCHANGED <<writerVars, arg, cont, remaining, calls, written, flushed, confVars, shellVars>>

\* Faulty variant of Event: the Shell's attributes are left out.
EventBare(level, msg) == <<"json", level, msg, [k \in DOMAIN logKVs |-> <<>>]>>

\* The text zerolog serializes one event to: a JSON object holding the
\* level, the message (line breaks in the message escaped) and one string
\* field for each pair of s.logKVs, all on one line; the bytes of one logger
\* write are that text and a newline.
Event(level, msg) == <<"json", level, msg, logKVs>>
LogLine(level, msg) == <<Event(level, msg), NL>>

\* Faulty variant of Prints: a failed delivery is reported as a log record.
PrintsLogged(d, o) ==
    IF o \in Failures THEN <<LogLine("error", <<Ch("!")>>)>> ELSE << >>

\* What a delivery goroutine prints on its way to outcome o.
\* Write's goroutine reports each failure; Close's prints its payload first
\* and does not look at the status.
Prints(d, o) ==
    IF d.src = "write"
    THEN CASE o = "req_err"    -> << <<Diag("HTTP Stream Error creating request"), NL>> >>
           [] o = "send_err"   -> << <<Diag("HTTP Stream Error sending request"), NL>> >>
           [] o = "bad_status" -> << <<Diag("HTTP Stream Error response status"), NL>> >>
           [] OTHER            -> << >>
    ELSE << <<Diag("HTTP Stream Final Payload: ")>> \o d.data >> \o
         (CASE o = "req_err"  -> << <<Diag("HTTP Stream Error creating final request"), NL>> >>
            [] o = "send_err" -> << <<Diag("HTTP Stream Error sending final request"), NL>> >>
            [] OTHER          -> << >>)

\* http.Header: the values of each header, under the canonical form of its
\* name (textproto.CanonicalMIMEHeaderKey).
HeaderKeys == {"Content-Type", "Token"}
Canon(k) ==
    CASE k = "content-type" -> "Content-Type"
      [] k = "token"        -> "Token"
      [] OTHER              -> k

\* make(http.Header)
NoHeader == [k \in HeaderKeys |-> <<>>]

\* Header.Set replaces the values of a name by one value.
HeaderSet(h, k, v) == [h EXCEPT ![Canon(k)] = <<v>>]

\* Header.Add appends a value to those of a name.
HeaderAdd(h, k, v) == [h EXCEPT ![Canon(k)] = Append(@, v)]

RECURSIVE AddValues(_, _, _)
AddValues(h, k, vs) ==
    IF vs = <<>> THEN h ELSE AddValues(HeaderAdd(h, k, Head(vs)), k, Tail(vs))

RECURSIVE AddKeys(_, _, _)
AddKeys(h, ks, hs) ==
    IF ks = {} THEN h
    ELSE LET k == CHOOSE x \in ks : TRUE
         IN AddKeys(AddValues(h, k, hs[k]), ks \ {k}, hs)

\* Faulty variant of RequestHeader: of the values of a name the request
\* keeps the one written last.
RequestHeaderLastWins(hs) ==
    LET h == HeaderSet(NoHeader, "Content-Type", "application/json")
    IN [k \in HeaderKeys |->
           IF hs[k] = <<>> THEN h[k] ELSE <<hs[k][Len(hs[k])]>>]

\* The header of the request a delivery goroutine sends:
\* req.Header.Set("Content-Type", "application/json"), then
\* req.Header.Add(key, value) for every value of every key of w.headers.
\* (The order in which range takes the keys does not show: the values of
\* different names do not mix.)
RequestHeader(hs) ==
    AddKeys(HeaderSet(NoHeader, "Content-Type", "application/json"),
            HeaderKeys, hs)

\* Faulty variant of Deliver: w.wg.Done() is not deferred, and a goroutine
\* that returns early on an error does not call it.
DeliverNoDone(i, o) ==
    /\ Running(i)
    /\ Possible(o)
    /\ deliveries' = [deliveries EXCEPT ![i].st = "done"]
    /\ wg' = IF o \in {"req_err", "send_err"} THEN wg ELSE wg - 1
    /\ localOut' = localOut \o Prints(deliveries[i], o)
    /\ req' = IF o = "req_err" THEN req ELSE RequestHeader(httpHeaders)
    /\ UNCHANGED <<buffer, mutex, threadVars, histVars, url, inputs,
                   builderVars, shellVars>>

\* Faulty variant of Deliver: the goroutine of Close's flush does not call
\* w.wg.Done().
DeliverFlushNoDone(i, o) ==
    /\ Running(i)
    /\ Possible(o)
    /\ deliveries' = [deliveries EXCEPT ![i].st = "done"]
    /\ wg' = IF deliveries[i].src = "close" THEN wg ELSE wg - 1
    /\ localOut' = localOut \o Prints(deliveries[i], o)
    /\ req' = IF o = "req_err" THEN req ELSE RequestHeader(httpHeaders)
    /\ UNCHANGED <<buffer, mutex, threadVars, histVars, url, inputs,
                   builderVars, shellVars>>

\* Faulty variant of Deliver: a delivery that failed is launched again.
DeliverRetry(i, o) ==
    /\ Running(i)
    /\ Possible(o)
    /\ deliveries' =
          IF o \in Failures /\ Len(deliveries) < 4
          THEN Append([deliveries EXCEPT ![i].st = "done"],
                      Delivery(deliveries[i].data, deliveries[i].src))
          ELSE [deliveries EXCEPT ![i].st = "done"]
    /\ wg' = IF o \in Failures /\ Len(deliveries) < 4 THEN wg ELSE wg - 1
    /\ localOut' = localOut \o Prints(deliveries[i], o)
    /\ req' = IF o = "req_err" THEN req ELSE RequestHeader(httpHeaders)
    /\ UNCHANGED <<buffer, mutex, threadVars, histVars, url, inputs,
                   builderVars, shellVars>>

\* A delivery goroutine runs to its end: defer w.wg.Done() on every path.
\* Unless http.NewRequest fails it builds a request, whose header is kept
\* in req; what it came to is kept nowhere but in what it printed.
Deliver(i, o) ==
    /\ Running(i)
    /\ Possible(o)
    /\ deliveries' = [deliveries EXCEPT ![i].st = "done"]
    /\ wg' = wg - 1
    /\ localOut' = localOut \o Prints(deliveries[i], o)
    /\ req' = IF o = "req_err" THEN req ELSE RequestHeader(httpHeaders)
    /\ UNCHANGED <<buffer, mutex, threadVars, histVars, url, inputs,
                   builderVars, shellVars>>

\* The steps of the writer, but for the launch of Close's flush.
WriterStep ==
    \/ \E t \in Threads : WriteLock(t)
    \/ \E t \in Threads : WriteLoop(t)
    \/ \E t \in Threads : WriteReturn(t)
    \/ \E t \in Threads : CloseLock(t)
    \/ \E t \in Threads : CloseWait(t)
    \/ \E t \in Threads : CloseReturn(t)
    \/ \E i \in 1..Len(deliveries) : \E o \in Outcomes : Deliver(i, o)

FlushStep == \E t \in Threads : CloseAdd(t)

\* NewHTTPStreamWriter: an empty buffer, nothing in flight.
InitWriter ==
    /\ buffer = <<>>
    /\ mutex = NoThread
    /\ wg = 0
    /\ deliveries = <<>>
    /\ localOut = <<>>
    /\ written = <<>>
    /\ flushed = 0
    /\ url \in {"valid", "invalid"}

\* The attribute keys the callers of this model use; a key maps to <<>>
\* while the map has no entry for it.
LogKeys == {"k", "j"}

\* New(): no arguments, directory, environment or attributes, and an empty
\* header map.
InitBuilder ==
    /\ args = <<>>
    /\ dir = ""
    /\ env = <<>>
    /\ httpHeaders = NoHeader
    /\ logKVs = [k \in LogKeys |-> <<>>]
    /\ req = NoHeader
    /\ trace = <<>>

InitThreads ==
    /\ arg = [t \in Threads |-> <<>>]
    /\ cont = [t \in Threads |-> "idle"]
    /\ ret = [t \in Threads |-> NoRet]
    /\ remaining = [t \in Threads |-> <<>>]
    /\ quiet = [t \in Threads |-> FALSE]
    /\ mark = [t \in Threads |-> 0]
    /\ calls = 0

----------------------------------------------------------------------------
(* The Shell: Exec and Stream, the child process and its two pipes.        *)

Fds == {"out", "err"}
None == [fd |-> "none", data |-> <<>>]
NoResult == [stdout |-> <<>>, stderr |-> <<>>, err |-> "none"]

\* The bytes the child writes: o to its stdout, e to its stderr.
O == Ch("o")
E == Ch("e")

\* The bytes of the k-th line of a stream: each line has a letter of its
\* own, so that the lines of one stream can be told apart.
OutLetters == <<"o", "p", "q", "r">>
ErrLetters == <<"e", "f", "g", "h">>
ByteAt(fd, k) ==
    LET i == ((k - 1) % Len(OutLetters)) + 1
    IN Ch(IF fd = "out" THEN OutLetters[i] ELSE ErrLetters[i])
Byte(fd) == ByteAt(fd, 1)

\* What one write(2) of the child carries.
Chunks(fd) ==
    LET b == ByteAt(fd, CountNL(emitted[fd]) + 1)
    IN {<<b>>, <<NL>>, <<b, NL>>, <<b, b>>}

\* What a command run by Exec leaves in the stdout and stderr buffers.
Captured(fd) ==
    {<<>>, <<NL>>, <<Byte(fd), NL>>, <<NL, Byte(fd), NL, Byte(fd), NL>>}

\* Faulty variant of Level: every record is an info record.
LevelInfo(fd) == "info"

\* s.logger.Info() for stdout, s.logger.Error() for stderr.
Level(fd) == IF fd = "out" THEN "info" ELSE "error"

\* Faulty variant of TrimSpace: the string is left as it is.
Untrimmed(s) == s

\* strings.TrimSpace, on strings whose only white space is the newline.
RECURSIVE TrimLeft(_)
TrimLeft(s) == IF s # <<>> /\ Head(s) = NL THEN TrimLeft(Tail(s)) ELSE s
RECURSIVE TrimRight(_)
TrimRight(s) ==
    IF s # <<>> /\ s[Len(s)] = NL THEN TrimRight(SubSeq(s, 1, Len(s) - 1)) ELSE s
TrimSpace(s) == TrimRight(TrimLeft(s))

\* Faulty variant of ExitErr: the exit status is not looked at.
ExitErrDropped(st) == "nil"

\* The error cmd.Run and cmd.Wait return for an exit status.
ExitErr(st) == IF st = 0 THEN "nil" ELSE "exit status"

HasWriter == sink # "stdout"

\* Faulty variant of Log: once a delivery has failed the local copy is no
\* longer written.
LogRemoteOnly(t, level, msg, k) ==
    /\ IF HasWriter
       THEN CallWrite(t, LogLine(level, msg), k)
       ELSE /\ pc' = [pc EXCEPT ![t] = k]
            /\ UNCHANGED <<arg, cont, quiet>>
    /\ localOut' = IF sink = "http" \/ ErrorPrinted THEN localOut
                   ELSE Append(localOut, LogLine(level, msg))

\* Faulty variant of Log: the local copy is put before what os.Stdout
\* already holds.
LogPrepend(t, level, msg, k) ==
    /\ IF HasWriter
       THEN CallWrite(t, LogLine(level, msg), k)
       ELSE /\ pc' = [pc EXCEPT ![t] = k]
            /\ UNCHANGED <<arg, cont, quiet>>
    /\ localOut' = IF sink = "http" THEN localOut
                   ELSE <<LogLine(level, msg)>> \o localOut

\* The logger writes one event: to os.Stdout, to the MultiWriter (os.Stdout
\* first, then the HTTP writer) or to the HTTP writer alone.  The thread
\* goes on at k, after the HTTP writer's Write if there is one.
Log(t, level, msg, k) ==
    /\ IF HasWriter
       THEN CallWrite(t, LogLine(level, msg), k)
       ELSE /\ pc' = [pc EXCEPT ![t] = k]
            /\ UNCHANGED <<arg, cont, quiet>>
    /\ localOut' = IF sink = "http" THEN localOut
                   ELSE Append(localOut, LogLine(level, msg))

\* Faulty variant of NoCommandReturn: the check for a command comes after
\* the defer statement.
NoCommandDeferred == "defer"

\* Where Exec and Stream go when no command is set: they return before the
\* defer statement that closes the HTTP writer is reached.
NoCommandReturn == "returned"

\* Exec: no command, or cmd.Run(): the process cannot be started, or it
\* runs to its end with both outputs captured.
ExecBegin ==
    /\ pc["main"] = "idle"
    /\ op' = "Exec"
    /\ IF command = ""
       THEN /\ result' = [NoResult EXCEPT !.err = "no command"]
            /\ pc' = [pc EXCEPT !["main"] = NoCommandReturn]
            /\ UNCHANGED <<emitted, status, proc>>
       ELSE /\ pc' = [pc EXCEPT !["main"] = "e_err"]
            /\ \/ /\ result' = [NoResult EXCEPT !.err = "start error"]
                  /\ UNCHANGED <<emitted, status, proc>>
               \/ \E o \in Captured("out"), e \in Captured("err"), st \in {0, 1} :
                     /\ emitted' = [out |-> o, err |-> e]
                     /\ status' = st
                     /\ proc' = "reaped"
                     /\ result' = [stdout |-> TrimSpace(o),
                                   stderr |-> TrimSpace(e),
                                   err |-> ExitErr(st)]
    /\ UNCHANGED <<writerVars, arg, cont, ret, remaining, histVars, confVars,
                   command, sink, pend, pipe, scanBuf, scanErr, swg, ops>>

\* Faulty variant of ExecLogErr: stderr is logged for a failed command only.
ExecLogErrOnFailure ==
    /\ pc["main"] = "e_err"
    /\ IF result.stderr # <<>> /\ result.err # "nil"
       THEN Log("main", Level("err"), result.stderr, "e_out")
       ELSE /\ pc' = [pc EXCEPT !["main"] = "e_out"]
            /\ UNCHANGED <<arg, cont, quiet, localOut>>
    /\ UNCHANGED <<buffer, mutex, wg, deliveries, ret, remaining, calls,
                   written, mark, flushed, confVars, shellVars>>

\* if errStr != "" { s.logger.Error()...Msg(errStr) }
ExecLogErr ==
    /\ pc["main"] = "e_err"
    /\ IF result.stderr # <<>>
       THEN Log("main", Level("err"), result.stderr, "e_out")
       ELSE /\ pc' = [pc EXCEPT !["main"] = "e_out"]
            /\ UNCHANGED <<arg, cont, quiet, localOut>>
    /\ UNCHANGED <<buffer, mutex, wg, deliveries, ret, remaining, calls,
                   written, mark, flushed, confVars, shellVars>>

\* if outStr != "" { s.logger.Info()...Msg(outStr) }; return
ExecLogOut ==
    /\ pc["main"] = "e_out"
    /\ IF result.stdout # <<>>
       THEN Log("main", Level("out"), result.stdout, "defer")
       ELSE /\ pc' = [pc EXCEPT !["main"] = "defer"]
            /\ UNCHANGED <<arg, cont, quiet, localOut>>
    /\ UNCHANGED <<buffer, mutex, wg, deliveries, ret, remaining, calls,
                   written, mark, flushed, confVars, shellVars>>

\* Stream up to the start of the two readers.  Without a command it returns
\* before the deferred Close is set up; a pipe that cannot be made or a
\* process that cannot be started is returned through the deferred Close.
StreamBegin ==
    /\ pc["main"] = "idle"
    /\ op' = "Stream"
    /\ IF command = ""
       THEN /\ result' = [NoResult EXCEPT !.err = "no command"]
            /\ pc' = [pc EXCEPT !["main"] = NoCommandReturn]
            /\ UNCHANGED <<proc, swg>>
       ELSE \E s \in {"nil", "pipe error", "start error"} :
              IF s = "nil"
              THEN /\ proc' = "running"
                   /\ swg' = 2
                   /\ pc' = [pc EXCEPT !["main"] = "s_wait",
                                       !["out"] = "scan", !["err"] = "scan"]
                   /\ UNCHANGED result
              ELSE /\ result' = [NoResult EXCEPT !.err = s]
                   /\ pc' = [pc EXCEPT !["main"] = "defer"]
                   /\ UNCHANGED <<proc, swg>>
    /\ UNCHANGED <<writerVars, arg, cont, ret, remaining, histVars, confVars,
                   command, sink, pend, pipe, scanBuf, scanErr, status,
                   emitted, ops>>

\* The child writes c to one of its streams: the write goes through at
\* once if the pipe has room for it, and blocks the child if not.
ProcWrite(fd, c) ==
    /\ proc = "running"
    /\ pend = None
    /\ ops < MaxOps
    /\ ops' = ops + 1
    /\ IF Len(pipe[fd]) + Len(c) <= PipeCap
       THEN /\ pipe' = [pipe EXCEPT ![fd] = @ \o c]
            /\ emitted' = [emitted EXCEPT ![fd] = @ \o c]
            /\ UNCHANGED pend
       ELSE /\ pend' = [fd |-> fd, data |-> c]
            /\ UNCHANGED <<pipe, emitted>>
    /\ UNCHANGED <<writerVars, threadVars, histVars, confVars, command, sink,
                   op, proc, scanBuf, scanErr, swg, status, result>>

\* A blocked write goes through once the pipe has room for it.
ProcPush ==
    /\ pend # None
    /\ Len(pipe[pend.fd]) + Len(pend.data) <= PipeCap
    /\ pipe' = [pipe EXCEPT ![pend.fd] = @ \o pend.data]
    /\ emitted' = [emitted EXCEPT ![pend.fd] = @ \o pend.data]
    /\ pend' = None
    /\ UNCHANGED <<writerVars, threadVars, histVars, confVars, command, sink,
                   op, proc, scanBuf, scanErr, swg, status, result, ops>>

\* The child exits, which closes the write end of both pipes.
ProcExit(st) ==
    /\ proc = "running"
    /\ pend = None
    /\ proc' = "exited"
    /\ status' = st
    /\ UNCHANGED <<writerVars, threadVars, histVars, confVars, command, sink,
                   op, pend, pipe, scanBuf, scanErr, swg, result, emitted,
                   ops>>

\* scanner.Scan() finds a line in its buffer and returns it without the
\* newline; the reader logs it unless it is empty.
ReaderToken(t) ==
    /\ pc[t] = "scan"
    /\ HasNL(scanBuf[t])
    /\ LET r == ReadBytes(scanBuf[t])
           line == SubSeq(r.line, 1, Len(r.line) - 1)
       IN /\ scanBuf' = [scanBuf EXCEPT ![t] = r.rest]
          /\ IF line # <<>>
             THEN Log(t, Level(t), line, "scan")
             ELSE UNCHANGED <<pc, arg, cont, quiet, localOut>>
    /\ UNCHANGED <<buffer, mutex, wg, deliveries, ret, remaining, calls,
                   written, mark, flushed, confVars, command, sink, op, proc, pend,
                   pipe, scanErr, swg, status, result, emitted, ops>>

\* No line in the buffer and room left: Scan reads what the pipe holds.
ReaderFill(t) ==
    /\ pc[t] = "scan"
    /\ ~HasNL(scanBuf[t])
    /\ Len(scanBuf[t]) < MaxScanTokenSize
    /\ pipe[t] # <<>>
    /\ LET free == MaxScanTokenSize - Len(scanBuf[t])
           n == IF Len(pipe[t]) < free THEN Len(pipe[t]) ELSE free
       IN /\ scanBuf' = [scanBuf EXCEPT ![t] = @ \o SubSeq(pipe[t], 1, n)]
          /\ pipe' = [pipe EXCEPT ![t] = SubSeq(@, n + 1, Len(@))]
    /\ UNCHANGED <<writerVars, threadVars, histVars, confVars, command, sink,
                   op, proc, pend, scanErr, swg, status, result, emitted, ops>>

\* No line in the buffer and the buffer full: Scan gives up with
\* ErrTooLong, and the reader's loop ends.
ReaderTooLong(t) ==
    /\ pc[t] = "scan"
    /\ ~HasNL(scanBuf[t])
    /\ Len(scanBuf[t]) >= MaxScanTokenSize
    /\ scanErr' = [scanErr EXCEPT ![t] = "toolong"]
    /\ pc' = [pc EXCEPT ![t] = "r_end"]
    /\ UNCHANGED <<writerVars, arg, cont, ret, remaining, histVars, confVars,
                   command, sink, op, proc, pend, pipe, scanBuf, swg, status,
                   result, emitted, ops>>

\* The read finds the pipe empty and its write end closed: what is left in
\* the buffer is the last line, and the reader's loop ends.
ReaderEOF(t) ==
    /\ pc[t] = "scan"
    /\ ~HasNL(scanBuf[t])
    /\ Len(scanBuf[t]) < MaxScanTokenSize
    /\ pipe[t] = <<>>
    /\ proc = "exited"
    /\ scanErr' = [scanErr EXCEPT ![t] = "eof"]
    /\ scanBuf' = [scanBuf EXCEPT ![t] = <<>>]
    /\ IF scanBuf[t] # <<>>
       THEN Log(t, Level(t), scanBuf[t], "r_end")
       ELSE /\ pc' = [pc EXCEPT ![t] = "r_end"]
            /\ UNCHANGED <<arg, cont, quiet, localOut>>
    /\ UNCHANGED <<buffer, mutex, wg, deliveries, ret, remaining, calls,
                   written, mark, flushed, confVars, command, sink, op, proc, pend,
                   pipe, swg, status, result, emitted, ops>>

\* defer wg.Done() of a reader.
ReaderDone(t) ==
    /\ pc[t] = "r_end"
    /\ swg' = swg - 1
    /\ pc' = [pc EXCEPT ![t] = "r_done"]
    /\ UNCHANGED <<writerVars, arg, cont, ret, remaining, histVars, confVars,
                   command, sink, op, proc, pend, pipe, scanBuf, scanErr,
                   status, result, emitted, ops>>

\* Faulty variant of StreamWait: Stream goes on without the readers.
StreamNoWait ==
    /\ pc["main"] = "s_wait"
    /\ pc' = [pc EXCEPT !["main"] = "s_cmdwait"]
    /\ UNCHANGED <<writerVars, arg, cont, ret, remaining, histVars, confVars,
                   shellVars>>

\* wg.Wait(): both readers are done.
StreamWait ==
    /\ pc["main"] = "s_wait"
    /\ swg = 0
    /\ pc' = [pc EXCEPT !["main"] = "s_cmdwait"]
    /\ UNCHANGED <<writerVars, arg, cont, ret, remaining, histVars, confVars,
                   shellVars>>

\* return cmd.Wait(): the child has exited.
StreamCmdWait ==
    /\ pc["main"] = "s_cmdwait"
    /\ proc = "exited"
    /\ proc' = "reaped"
    /\ result' = [NoResult EXCEPT !.err = ExitErr(status)]
    /\ pc' = [pc EXCEPT !["main"] = "defer"]
    /\ UNCHANGED <<writerVars, arg, cont, ret, remaining, histVars, confVars,
                   command, sink, op, pend, pipe, scanBuf, scanErr, swg,
                   status, emitted, ops>>

\* Faulty variant of Defer: the HTTP writer is left as it is.
DeferNoClose ==
    /\ pc["main"] = "defer"
    /\ pc' = [pc EXCEPT !["main"] = "returned"]
    /\ UNCHANGED <<writerVars, arg, cont, ret, remaining, histVars, confVars,
                   shellVars>>

\* The deferred function of Exec and Stream: Close the HTTP writer if there
\* is one.  What Close returns is dropped.
Defer ==
    /\ pc["main"] = "defer"
    /\ IF HasWriter
       THEN CallClose("main", "returned")
       ELSE /\ pc' = [pc EXCEPT !["main"] = "returned"]
            /\ UNCHANGED <<cont, quiet>>
    /\ UNCHANGED <<writerVars, arg, ret, remaining, calls, written, mark,
                   flushed, confVars, shellVars>>

ShellStep ==
    \/ ExecBegin
    \/ ExecLogErr
    \/ ExecLogOut
    \/ StreamBegin
    \/ \E fd \in Fds : \E c \in Chunks(fd) : ProcWrite(fd, c)
    \/ ProcPush
    \/ \E st \in {0, 1} : ProcExit(st)
    \/ \E t \in Fds : ReaderToken(t)
    \/ \E t \in Fds : ReaderFill(t)
    \/ \E t \in Fds : ReaderTooLong(t)
    \/ \E t \in Fds : ReaderEOF(t)
    \/ \E t \in Fds : ReaderDone(t)
    \/ StreamWait
    \/ StreamCmdWait
    \/ Defer

\* New() and the builder calls that precede Exec or Stream: the logger
\* writes to os.Stdout unless WithHTTPStream or WithHTTPStreamOnly
\* attached a writer.
InitShell ==
    /\ op = "none"
    /\ proc = "none"
    /\ pend = None
    /\ pipe = [fd \in Fds |-> <<>>]
    /\ scanBuf = [fd \in Fds |-> <<>>]
    /\ scanErr = [fd \in Fds |-> "none"]
    /\ swg = 0
    /\ status = 0
    /\ result = NoResult
    /\ emitted = [fd \in Fds |-> <<>>]
    /\ ops = 0

Init ==
    /\ InitWriter
    /\ InitThreads
    /\ InitShell
    /\ InitBuilder
    /\ command \in {"", "sh"}
    /\ sink \in {"stdout", "multi", "http"}
    /\ sink = "stdout" => url = "valid"
    /\ pc = [t \in Threads |-> IF t = "main" THEN "idle" ELSE "off"]
    /\ inputs = {}

\* Every write of the logger ends in a newline, so the Shell's Close finds
\* the buffer empty and has no flush to launch (NoShellFlush below).
Next == ShellStep \/ WriterStep

Spec == Init /\ [][Next]_vars

NoShellFlush == \A t \in Threads : pc[t] # "c_add"

----------------------------------------------------------------------------
(* A free-standing writer and the clients that call it.                    *)

A == Ch("a")
B == Ch("b")

\* What the clients of one run pass to Write: the pieces any chunking of a
\* stream of lines is made of, or the writes "abc" and "def\n", an empty
\* write and a write that holds two lines.
ChunkingInputs == {<<A>>, <<NL>>, <<A, NL>>, <<NL, A>>}
ExampleInputs ==
    {<<>>, <<A, B, Ch("c")>>, <<Ch("d"), Ch("e"), Ch("f"), NL>>, <<A, NL, B, NL>>}

\* The two clients are interchangeable: a call made while both are idle is
\* taken to be c1's, and c2 makes the calls that overlap one of c1's.
MayCall(t) ==
    /\ pc[t] = "idle"
    /\ calls < MaxCalls
    /\ t = "c2" => pc["c1"] # "idle"

ClientWrite(t, p) ==
    /\ MayCall(t)
    /\ CountNL(written) + CountNL(p) <= MaxRecords
    /\ calls' = calls + 1
    /\ CallWrite(t, p, "idle")
    /\ UNCHANGED <<writerVars, ret, remaining, written, mark, flushed, confVars, shellVars>>

ClientClose(t) ==
    /\ MayCall(t)
    /\ calls' = calls + 1
    /\ CallClose(t, "idle")
    /\ UNCHANGED <<writerVars, arg, ret, remaining, written, mark, flushed, confVars, shellVars>>

InitW ==
    /\ InitWriter
    /\ InitThreads
    /\ InitShell
    /\ InitBuilder
    /\ command = ""
    /\ sink = "stdout"
    /\ pc = [t \in Threads |-> IF t \in Clients THEN "idle" ELSE "off"]
    /\ inputs \in {ChunkingInputs, ExampleInputs}

NextW ==
    \/ \E t \in Clients : \E p \in inputs : ClientWrite(t, p)
    \/ \E t \in Clients : ClientClose(t)
    \/ WriterStep
    \/ FlushStep

SpecWriter == InitW /\ [][NextW]_vars

----------------------------------------------------------------------------
(* The builder: the calls that configure a Shell before it is used.        *)

\* What the callers of this model pass to the builder.
Words == {"", "sh", "-c"}
WordLists == {<<>>, <<"sh">>, <<"", "-c">>, <<"sh", "-c">>}
HeaderCalls == {<<"content-type", "text/plain">>, <<"Token", "t1">>,
                <<"token", "t2">>}
KVCalls == {<<"k", "1">>, <<"k", "2">>, <<"j", "1">>}

\* All that a builder call leaves as it is.
runVars == <<writerVars, threadVars, histVars, inputs, req, op, proc, pend,
             pipe, scanBuf, scanErr, swg, status, result, emitted, ops>>

\* A builder call is made, on a Shell that has not been used yet.
Call(name, as) ==
    /\ Len(trace) < MaxBuild
    /\ calls = 0
    /\ op = "none"
    /\ trace' = Append(trace, [name |-> name, args |-> as])

Arg(a) ==
    /\ Call("Arg", <<a>>)
    /\ IF command = ""
       THEN command' = a /\ UNCHANGED args
       ELSE args' = Append(args, a) /\ UNCHANGED command
    /\ UNCHANGED <<runVars, dir, env, httpHeaders, logKVs, sink, url>>

Args(as) ==
    /\ Call("Args", as)
    /\ IF Len(as) = 0
       THEN UNCHANGED <<command, args>>
       ELSE IF command = ""
            THEN /\ command' = as[1]
                 /\ args' = IF Len(as) > 1 THEN args \o Tail(as) ELSE args
            ELSE /\ args' = args \o as
                 /\ UNCHANGED command
    /\ UNCHANGED <<runVars, dir, env, httpHeaders, logKVs, sink, url>>

\* Faulty variant of Command: the arguments given so far are dropped.
CommandFresh(c) ==
    /\ Call("Command", <<c>>)
    /\ command' = c
    /\ args' = <<>>
    /\ UNCHANGED <<runVars, dir, env, httpHeaders, logKVs, sink, url>>

Command(c) ==
    /\ Call("Command", <<c>>)
    /\ command' = c
    /\ UNCHANGED <<runVars, args, dir, env, httpHeaders, logKVs, sink, url>>

Dir(path) ==
    /\ Call("Dir", <<path>>)
    /\ dir' = path
    /\ UNCHANGED <<runVars, command, args, env, httpHeaders, logKVs, sink, url>>

Env(key, value) ==
    /\ Call("Env", <<key, value>>)
    /\ env' = Append(env, key \o "=" \o value)
    /\ UNCHANGED <<runVars, command, args, dir, httpHeaders, logKVs, sink, url>>

AddHTTPHeader(key, value) ==
    /\ Call("AddHTTPHeader", <<key, value>>)
    /\ httpHeaders' = HeaderAdd(httpHeaders, key, value)
    /\ UNCHANGED <<runVars, command, args, dir, env, logKVs, sink, url>>

\* s.logKVs[key] = value, in a map made when there is none.
LogKV(key, value) ==
    /\ Call("LogKV", <<key, value>>)
    /\ logKVs' = [logKVs EXCEPT ![key] = <<value>>]
    /\ UNCHANGED <<runVars, command, args, dir, env, httpHeaders, sink, url>>

\* s.logKVs = make(map[string]string)
ClearLogKV ==
    /\ Call("ClearLogKV", <<>>)
    /\ logKVs' = [k \in DOMAIN logKVs |-> <<>>]
    /\ UNCHANGED <<runVars, command, args, dir, env, httpHeaders, sink, url>>

\* NewHTTPStreamWriter(url, s.httpHeaders): a writer with an empty buffer
\* and nothing in flight, whose headers are the Shell's own map.
NewHTTPStreamWriter(u) ==
    /\ url' = u
    /\ buffer' = <<>>
    /\ mutex' = NoThread
    /\ wg' = 0
    /\ UNCHANGED <<deliveries, localOut, threadVars, histVars, inputs, req,
                   op, proc, pend, pipe, scanBuf, scanErr, swg, status,
                   result, emitted, ops>>

\* The logger writes to os.Stdout and to the new writer.
WithHTTPStream(u) ==
    /\ Call("WithHTTPStream", <<u>>)
    /\ NewHTTPStreamWriter(u)
    /\ sink' = "multi"
    /\ UNCHANGED <<command, args, dir, env, httpHeaders, logKVs>>

\* The logger writes to the new writer alone.
WithHTTPStreamOnly(u) ==
    /\ Call("WithHTTPStreamOnly", <<u>>)
    /\ NewHTTPStreamWriter(u)
    /\ sink' = "http"
    /\ UNCHANGED <<command, args, dir, env, httpHeaders, logKVs>>

BuilderStep ==
    \/ \E a \in Words : Arg(a)
    \/ \E as \in WordLists : Args(as)
    \/ \E c \in Words : Command(c)
    \/ Dir("/tmp")
    \/ Env("K", "v")
    \/ \E h \in HeaderCalls : AddHTTPHeader(h[1], h[2])
    \/ \E kv \in KVCalls : LogKV(kv[1], kv[2])
    \/ ClearLogKV
    \/ \E u \in {"valid", "invalid"} : WithHTTPStream(u)
    \/ WithHTTPStreamOnly("valid")

\* The first write the logger of a Shell with a writer makes to it.
FirstWrite(t, p) ==
    /\ HasWriter
    /\ calls = 0
    /\ ClientWrite(t, p)

InitB ==
    /\ InitWriter
    /\ InitThreads
    /\ InitShell
    /\ InitBuilder
    /\ url = "valid"
    /\ command = ""
    /\ sink = "stdout"
    /\ pc = [t \in Threads |-> IF t = "c1" THEN "idle" ELSE "off"]
    /\ inputs = {<<A, NL>>}

NextB ==
    \/ BuilderStep
    \/ \E t \in Clients : \E p \in inputs : FirstWrite(t, p)
    \/ \E t \in Clients : WriteLock(t)
    \/ \E t \in Clients : WriteLoop(t)
    \/ \E t \in Clients : WriteReturn(t)
    \/ \E i \in 1..Len(deliveries) : \E o \in Outcomes : Deliver(i, o)

SpecBuilder == InitB /\ [][NextB]_vars

----------------------------------------------------------------------------
(* What the writer's claims speak of. *)

\* The payloads handed to the delivery goroutines, in launch order.
Payloads == [i \in 1..Len(deliveries) |-> deliveries[i].data]

\* The complete lines of a byte string, each with its newline, and what
\* follows the last of them.
RECURSIVE Lines(_)
Lines(s) ==
    IF HasNL(s)
    THEN <<SubSeq(s, 1, FirstNL(s))>> \o Lines(SubSeq(s, FirstNL(s) + 1, Len(s)))
    ELSE <<>>

RECURSIVE Fragment(_)
Fragment(s) ==
    IF HasNL(s) THEN Fragment(SubSeq(s, FirstNL(s) + 1, Len(s))) ELSE s

\* A line without its newline.
Stripped(l) == SubSeq(l, 1, Len(l) - 1)

\* No Close has taken bytes off the buffer, and no Write is at work.
NoFlush ==
    /\ \A i \in 1..Len(deliveries) : deliveries[i].src = "write"
    /\ \A t \in Threads : pc[t] # "c_add"

AtRest == mutex = NoThread

NoneRunning == \A i \in 1..Len(deliveries) : ~Running(i)

AbcDefNL == <<A, B, Ch("c"), Ch("d"), Ch("e"), Ch("f"), NL>>

\* C1 (as amended): after any Write calls, made in any chunking and with no
\* Close flush between them, the deliveries launched are, in launch order,
\* exactly the complete lines of the bytes written, each line with its
\* terminating newline, and the unterminated rest is what the buffer holds;
\* a line written twice is launched twice.
C1_FramingKeepsNewline ==
    (NoFlush /\ AtRest) =>
        /\ Payloads = Lines(written)
        /\ buffer = Fragment(written)

\* C1 as stated: the payloads are the lines L1..Ln themselves, without
\* their newlines.
C1_FramingStripped ==
    (NoFlush /\ AtRest /\ Fragment(written) = <<>>) =>
        Payloads = [i \in 1..Len(Lines(written)) |-> Stripped(Lines(written)[i])]

\* The line "a\n" written twice in three writes: two equal deliveries.
C1_Witness ==
    /\ NoFlush /\ AtRest
    /\ inputs = ChunkingInputs /\ calls = 3
    /\ \A t \in Clients : pc[t] = "idle"
    /\ written = <<A, NL, A, NL>>
    /\ Len(deliveries) = 2
    /\ deliveries[1].data = deliveries[2].data

\* C2 (as amended): writes that hold no newline launch no delivery and
\* their bytes stay in the buffer; after "abc" and then "def\n" exactly one
\* delivery has been launched, and its payload is "abcdef\n".
C2_PartialTailKept ==
    (NoFlush /\ AtRest) =>
        /\ ~HasNL(written) => (deliveries = <<>> /\ buffer = written)
        /\ written = AbcDefNL => (Payloads = <<AbcDefNL>> /\ buffer = <<>>)

\* C2 as stated: the one delivery's record is "abcdef".
C2_RecordWithoutNewline ==
    (NoFlush /\ AtRest /\ written = AbcDefNL) => Payloads = <<Stripped(AbcDefNL)>>

C2_Witness ==
    /\ NoFlush /\ AtRest
    /\ written = AbcDefNL
    /\ calls = 2
    /\ Len(deliveries) = 1

\* C3: when a Close that no other call overlaps returns, the WaitGroup
\* counter is 0 and every delivery launched, by the writes before it and by
\* its own flush, has finished.
C3_DrainComplete ==
    \A t \in Threads : (pc[t] = "c_ret" /\ quiet[t]) => (wg = 0 /\ NoneRunning)

\* A Close returning after a write's delivery and its own flush, one of
\* which failed.
C3_Witness ==
    \E t \in Threads :
        /\ pc[t] = "c_ret" /\ quiet[t]
        /\ \E i, j \in 1..Len(deliveries) :
              deliveries[i].src = "write" /\ deliveries[j].src = "close"
        /\ ErrorPrinted

\* C4 as stated: whenever a Close returns, no delivery is running.
C4_NoneRunningAtReturn ==
    \A t \in Threads : pc[t] = "c_ret" => NoneRunning

\* C4 (as amended): when a Close returns, every delivery launched before
\* its wait on the WaitGroup ended has finished; a delivery launched after
\* that, by a Write or a Close running concurrently, may still be running.
C4_LaunchedBeforeWaitDone ==
    \A t \in Threads :
        pc[t] = "c_ret" => \A i \in 1..Len(deliveries) : Running(i) => i > mark[t]

\* A Close returning with an earlier delivery finished and a later one,
\* launched by a concurrent Write, still running.
C4_Witness ==
    \E t \in Threads :
        /\ pc[t] = "c_ret"
        /\ mark[t] >= 1
        /\ \E i \in 1..Len(deliveries) : Running(i) /\ deliveries[i].src = "write"

\* C5: every Write returns len(p) and a nil error.
C5_WriteAccepts ==
    \A t \in Threads :
        pc[t] = "w_ret" => ret[t] = [n |-> Len(arg[t]), err |-> "nil"]

\* A Write returning with bytes left in the buffer, a delivery in flight
\* and another one failed.
C5_Witness ==
    \E t \in Threads :
        /\ pc[t] = "w_ret"
        /\ Len(arg[t]) > 0
        /\ buffer # <<>>
        /\ \E i \in 1..Len(deliveries) : Running(i)
        /\ ErrorPrinted

----------------------------------------------------------------------------
(* What the Shell's claims speak of. *)

\* The log records written to os.Stdout, and those passed to the HTTP
\* writer, in order.
IsRecord(b) == b[1] = "json"
LocalRecords ==
    LET recs == SelectSeq(localOut, LAMBDA e : IsRecord(e[1]))
    IN [i \in 1..Len(recs) |-> recs[i][1]]
RemoteRecords == SelectSeq(written, LAMBDA b : b # NL)

\* The messages of the records of one level among recs.
Msgs(recs, level) ==
    LET sel == SelectSeq(recs, LAMBDA r : r[2] = level)
    IN [i \in 1..Len(sel) |-> sel[i][3]]

NonEmpty(ls) == SelectSeq(ls, LAMBDA l : l # <<>>)

\* The lines of a stream: the text before each newline, and what follows
\* the last newline if anything does.
RECURSIVE LinesOf(_)
LinesOf(s) ==
    IF s = <<>> THEN <<>>
    ELSE IF HasNL(s)
         THEN <<SubSeq(s, 1, FirstNL(s) - 1)>>
                  \o LinesOf(SubSeq(s, FirstNL(s) + 1, Len(s)))
         ELSE <<s>>

\* The lines of a stream up to the first one that does not fit a buffer of
\* MaxScanTokenSize bytes.
RECURSIVE LinesThatFit(_)
LinesThatFit(s) ==
    IF s = <<>> THEN <<>>
    ELSE IF HasNL(s)
         THEN IF FirstNL(s) - 1 < MaxScanTokenSize
              THEN <<SubSeq(s, 1, FirstNL(s) - 1)>>
                       \o LinesThatFit(SubSeq(s, FirstNL(s) + 1, Len(s)))
              ELSE <<>>
         ELSE IF Len(s) < MaxScanTokenSize THEN <<s>> ELSE <<>>

Returned == pc["main"] = "returned"
Started == op = "Stream" /\ proc # "none"
ReadersDone == pc["out"] = "r_done" /\ pc["err"] = "r_done"

\* What the child's output and exit status make the call return and log,
\* whatever comes of the deliveries.
ExpectedMsgs(fd) ==
    IF op = "Exec"
    THEN NonEmpty(<<TrimSpace(emitted[fd])>>)
    ELSE NonEmpty(LinesThatFit(emitted[fd]))

ExpectedResult ==
    [stdout |-> IF op = "Exec" THEN TrimSpace(emitted["out"]) ELSE <<>>,
     stderr |-> IF op = "Exec" THEN TrimSpace(emitted["err"]) ELSE <<>>,
     err    |-> IF command = "" THEN "no command"
                ELSE IF proc = "none" THEN result.err
                ELSE ExitErr(status)]

\* C6: what Exec and Stream return, and the records written to os.Stdout,
\* are a function of the command's output and exit status alone; whichever
\* way each delivery ends, they are the same.
C6_DeliveryIsolation ==
    Returned =>
        /\ result = ExpectedResult
        /\ result.err \in {"nil", "exit status", "no command", "pipe error",
                           "start error"}
        /\ IF sink = "http" THEN LocalRecords = <<>>
           ELSE /\ Msgs(LocalRecords, "info") = ExpectedMsgs("out")
                /\ Msgs(LocalRecords, "error") = ExpectedMsgs("err")
                /\ Len(LocalRecords) = Len(ExpectedMsgs("out"))
                                         + Len(ExpectedMsgs("err"))

\* A command that succeeded and was logged locally, with a delivery that
\* failed.
C6_Witness ==
    /\ Returned
    /\ sink = "multi"
    /\ result.err = "nil"
    /\ LocalRecords # <<>>
    /\ ErrorPrinted

\* C7: once the child has started, Stream is past wg.Wait() only when both
\* readers are done, is at or past the deferred Close only when cmd.Wait()
\* has returned, and has returned only when both scanners have met the end
\* of their pipe and the writer, if there is one, has drained.
C7_ShutdownOrdering ==
    Started =>
        /\ pc["main"] # "s_wait" => ReadersDone
        /\ pc["main"] \notin {"s_wait", "s_cmdwait"} => proc = "reaped"
        /\ Returned =>
              /\ scanErr["out"] = "eof" /\ scanErr["err"] = "eof"
              /\ buffer = <<>> /\ wg = 0 /\ NoneRunning

\* C8: as long as a Stream whose child has started has not come to its
\* deferred Close, some step of the readers, the child, the writer or
\* Stream itself can be taken.
C8_NoHang ==
    (Started /\ pc["main"] \in {"s_wait", "s_cmdwait"}) => ENABLED Next

\* C9: when Stream has returned, the records passed to the logger's sink
\* are, stream by stream and in order, the non-empty lines the child wrote.
C9_EveryLineOneRecord ==
    (Started /\ Returned) =>
        /\ sink # "http" =>
              /\ Msgs(LocalRecords, "info") = NonEmpty(LinesOf(emitted["out"]))
              /\ Msgs(LocalRecords, "error") = NonEmpty(LinesOf(emitted["err"]))
        /\ sink # "stdout" =>
              /\ Msgs(RemoteRecords, "info") = NonEmpty(LinesOf(emitted["out"]))
              /\ Msgs(RemoteRecords, "error") = NonEmpty(LinesOf(emitted["err"]))

\* What a record made from the child's stdout or stderr may say: a line of
\* it (Stream) or the whole of it, trimmed (Exec).
Texts(fd) ==
    IF op = "Exec" THEN {TrimSpace(emitted[fd])}
    ELSE {LinesOf(emitted[fd])[i] : i \in 1..Len(LinesOf(emitted[fd]))}

HasByte(msg, fd) ==
    \E i \in 1..Len(msg) : \E k \in 1..Len(OutLetters) : msg[i] = ByteAt(fd, k)

IsPrefix(a, b) ==
    /\ Len(a) <= Len(b)
    /\ \A i \in 1..Len(a) : a[i] = b[i]

\* C11: at every moment of a Stream, the records of each level handed to
\* os.Stdout and those handed to the HTTP writer are, in order, the first
\* of the non-empty lines the child wrote to the stream of that level; the
\* records of the two streams may come in either order.
C11_PerStreamOrder ==
    Started =>
        \A recs \in {LocalRecords, RemoteRecords} :
            /\ IsPrefix(Msgs(recs, "info"), NonEmpty(LinesOf(emitted["out"])))
            /\ IsPrefix(Msgs(recs, "error"), NonEmpty(LinesOf(emitted["err"])))

\* Two different stdout lines logged in their order, and a stderr record
\* that comes at another place on os.Stdout than at the HTTP writer.
C11_Witness ==
    /\ Returned
    /\ sink = "multi"
    /\ Len(Msgs(LocalRecords, "info")) = 2
    /\ Msgs(LocalRecords, "info")[1] # Msgs(LocalRecords, "info")[2]
    /\ Len(Msgs(LocalRecords, "error")) = 1
    /\ LocalRecords # RemoteRecords

\* C12: what Exec or Stream returns is a non-nil error exactly when no
\* command was set, the process (or, for Stream, a pipe) could not be
\* started, or the exit status is not zero, whatever the child wrote to
\* stderr and however the deliveries ended.
C12_ErrorPropagation ==
    Returned =>
        /\ result.err # "none"
        /\ result.err # "nil" <=> (command = "" \/ proc = "none" \/ status # 0)

\* A Stream that returns nil though the child wrote to stderr and a
\* delivery failed.
C12_Witness ==
    /\ Returned
    /\ op = "Stream"
    /\ result.err = "nil"
    /\ emitted["err"] # <<>>
    /\ ErrorPrinted

\* C13: with no command set, a call of Exec or Stream has returned at once
\* with the empty string and an error, no process has been started,
\* nothing has been logged, no delivery has been launched and no method of
\* the HTTP writer has been called.
C13_NoCommandFailsFast ==
    (command = "" /\ op # "none") =>
        /\ Returned
        /\ result = [stdout |-> <<>>, stderr |-> <<>>, err |-> "no command"]
        /\ proc = "none" /\ ops = 0 /\ swg = 0
        /\ pc["out"] = "off" /\ pc["err"] = "off"
        /\ localOut = <<>>
        /\ deliveries = <<>> /\ wg = 0
        /\ written = <<>> /\ buffer = <<>> /\ mutex = NoThread

\* Stream called without a command on a Shell that has an HTTP writer.
C13_Witness ==
    /\ command = ""
    /\ op = "Stream"
    /\ HasWriter
    /\ Returned

StartFailed == op = "Stream" /\ command # "" /\ proc = "none"

\* C14: when Stream cannot make a pipe or start the process, it is on its
\* way out with an error that is not the error of a non-zero exit, no reader
\* has been started and nothing has been logged; and if an HTTP writer is
\* attached, Stream returns only from that writer's Close, with nothing left
\* in flight.
C14_StartFailureDistinct ==
    /\ [](StartFailed =>
            /\ result.err \in {"pipe error", "start error"}
            /\ pc["main"] \in {"defer", "c_lock", "c_wait", "c_ret", "returned"}
            /\ pc["out"] = "off" /\ pc["err"] = "off" /\ swg = 0
            /\ localOut = <<>> /\ written = <<>> /\ deliveries = <<>>
            /\ wg = 0)
    /\ [][(StartFailed /\ HasWriter /\ ~Returned /\ Returned')
             => pc["main"] = "c_ret"]_vars

\* Stream, unable to start the process, returning from the Close of its
\* HTTP writer.
C14_Witness ==
    /\ StartFailed
    /\ HasWriter
    /\ result.err = "start error"
    /\ pc["main"] = "c_ret"

\* r is s without the white space at its two ends.
IsTrimOf(r, s) ==
    \E i \in 1..(Len(s) + 1) : \E j \in 0..Len(s) :
        /\ r = SubSeq(s, i, j)
        /\ \A k \in 1..Len(s) : (k < i \/ k > j) => s[k] = NL
        /\ r # <<>> => (r[1] # NL /\ r[Len(r)] # NL)

ExecRan == op = "Exec" /\ proc = "reaped"

\* C15: when the command run by Exec has exited with a non-zero status,
\* Exec returns the exit error together with all that the command wrote to
\* its stdout, trimmed.
C15_FailureCarriesOutput ==
    (ExecRan /\ status # 0) =>
        /\ result.err = "exit status"
        /\ IsTrimOf(result.stdout, emitted["out"])

\* Exec returning the output of a failed command, with the white space
\* around it cut off.
C15_Witness ==
    /\ ExecRan /\ status # 0
    /\ Returned
    /\ result.stdout # <<>>
    /\ result.stdout # emitted["out"]

\* The records Exec makes of a captured stderr and stdout.
ExecRecords ==
    (IF \A k \in 1..Len(emitted["err"]) : emitted["err"][k] = NL THEN <<>>
     ELSE <<Event("error", result.stderr)>>)
    \o
    (IF \A k \in 1..Len(emitted["out"]) : emitted["out"][k] = NL THEN <<>>
     ELSE <<Event("info", result.stdout)>>)

LocalLines == SelectSeq(localOut, LAMBDA e : IsRecord(e[1]))
OfLevel(ls, level) == SelectSeq(ls, LAMBDA e : e[1][2] = level)

\* The write of one level that has been handed to the HTTP writer's Write
\* and waits for the mutex.
Waiting(level) ==
    LET ts == {t \in Threads : pc[t] = "w_lock" /\ arg[t][1][2] = level}
    IN IF ts = {} THEN <<>> ELSE <<arg[CHOOSE t \in ts : TRUE]>>

\* C17: with WithHTTPStream, the writes of the logger found on os.Stdout
\* are, level by level, in order and byte for byte, the writes the HTTP
\* writer has taken into its buffer followed by the one that is waiting for
\* its mutex: the local copy is there whatever the writer is doing and
\* however the deliveries end.
C17_FanOutKeepsLocal ==
    sink = "multi" =>
        /\ \A level \in {"info", "error"} :
              OfLevel(LocalLines, level)
                  = OfLevel(Lines(written), level) \o Waiting(level)
        /\ Len(LocalLines) = Len(OfLevel(LocalLines, "info"))
                               + Len(OfLevel(LocalLines, "error"))

\* A record already on os.Stdout while its Write waits for the mutex that
\* another Write holds, after a delivery has failed.
C17_Witness ==
    /\ sink = "multi"
    /\ ErrorPrinted
    /\ \E t \in Threads : pc[t] = "w_lock" /\ mutex \notin {NoThread, t}
    /\ Len(LocalLines) > Len(Lines(written))

\* C18: a thread that is in Write can always take its next step, or the
\* Write that holds the mutex can take its next step, whatever deliveries
\* are in flight: no step of Write waits for a delivery.
C18_NoBackpressure ==
    \A t \in Threads :
        InWrite(t) =>
            \/ ENABLED (WriteLock(t) \/ WriteLoop(t) \/ WriteReturn(t))
            \/ mutex \notin {NoThread, t} /\ ENABLED WriteLoop(mutex)

\* Both readers have logged a line and finished and the child has been
\* waited for while no delivery has ended yet: only Stream's deferred Close
\* waits for them.
C18_Witness ==
    /\ Started
    /\ ReadersDone
    /\ proc = "reaped"
    /\ pc["main"] = "c_wait"
    /\ Len(deliveries) >= 2
    /\ \A i \in 1..Len(deliveries) : Running(i)

----------------------------------------------------------------------------
(* More of the writer. *)

FromWrite(i) == deliveries[i].src = "write"

\* C19 as stated: the payload of a delivery that Write launches holds no
\* newline.
C19_TerminatorStripped ==
    \A i \in 1..Len(deliveries) : FromWrite(i) => ~HasNL(deliveries[i].data)

\* C19 (as amended): the payload of a delivery that Write launches is the
\* bytes of one line followed by the line's newline: its last byte is a
\* newline, and it is the only one.
C19_TerminatorKept ==
    \A i \in 1..Len(deliveries) :
        FromWrite(i) =>
            LET d == deliveries[i].data
            IN /\ Len(d) >= 1
               /\ d[Len(d)] = NL
               /\ \A k \in 1..(Len(d) - 1) : d[k] # NL

\* The line "a" launched with its newline, and an empty line launched as a
\* newline alone.
C19_Witness ==
    /\ \E i \in 1..Len(deliveries) : FromWrite(i) /\ deliveries[i].data = <<A, NL>>
    /\ \E i \in 1..Len(deliveries) : FromWrite(i) /\ deliveries[i].data = <<NL>>

\* d is a non-empty run of bytes of w that holds no newline.
IsFragmentOf(d, w) ==
    /\ d # <<>>
    /\ ~HasNL(d)
    /\ \E i \in 1..Len(w) :
          i + Len(d) - 1 <= Len(w) /\ SubSeq(w, i, i + Len(d) - 1) = d

FromClose(i) == deliveries[i].src = "close"

\* A Close that no other call overlaps has passed its locked section, and
\* no Close before it had anything to flush.
FirstFlushDone(t) ==
    /\ pc[t] \in {"c_wait", "c_ret"}
    /\ quiet[t]
    /\ \A i \in 1..(Len(deliveries) - 1) : FromWrite(i)

\* C20: what Close has taken off a non-empty buffer, and the payload of the
\* delivery it launches with it, are bytes that were written, a fragment
\* without a newline; after the writes that precede it, Close leaves the
\* buffer empty and the deliveries launched are those of the complete
\* lines followed by one for the whole fragment, if there is a fragment,
\* and by none if there is not.
C20_FinalFlush ==
    /\ \A t \in Threads : pc[t] = "c_add" => IsFragmentOf(remaining[t], written)
    /\ \A i \in 1..Len(deliveries) :
          FromClose(i) => IsFragmentOf(deliveries[i].data, written)
    /\ \A t \in Threads :
          FirstFlushDone(t) =>
              /\ buffer = <<>>
              /\ Payloads = Lines(written) \o
                     (IF Fragment(written) = <<>> THEN <<>>
                      ELSE <<Fragment(written)>>)

\* The deliveries that end in a step.
Ending == {i \in 1..Len(deliveries) : Running(i) /\ deliveries'[i].st = "done"}

\* The failures the delivery goroutines have reported.
Reported == SelectSeq(localOut, LAMBDA e : e \in ErrorLines)

\* C21: Write launches one delivery for each line it frames and no other;
\* a Write or a Close that returns returns a nil error, whatever has become
\* of the deliveries; a delivery that is running can always run to its end,
\* whatever has become of the others; and a step in which a delivery ends,
\* failing or not, ends that one alone, launches none, leaves every call of
\* Write and Close where it is, and a delivery that has ended stays as it is.
C21_AtMostOnce ==
    /\ [](/\ AtRest =>
               Cardinality({i \in 1..Len(deliveries) : FromWrite(i)})
                   = CountNL(written)
          /\ \A t \in Threads :
               pc[t] \in {"w_ret", "c_ret"} => ret[t].err = "nil"
          /\ \A i \in 1..Len(deliveries) :
               Running(i) => ENABLED (\E o \in Outcomes : Deliver(i, o)))
    /\ [][/\ Len(deliveries') >= Len(deliveries)
          /\ \A i \in 1..Len(deliveries) :
               /\ deliveries'[i].src = deliveries[i].src
               /\ ~Running(i) => deliveries'[i] = deliveries[i]
          /\ Ending # {} =>
               /\ Cardinality(Ending) = 1
               /\ Len(deliveries') = Len(deliveries)
               /\ UNCHANGED <<buffer, mutex, threadVars>>]_vars

\* Two lines written and both deliveries ended, one of them failing and
\* the other not, and a Close returning after them.
C21_Witness ==
    /\ url = "valid"
    /\ Len(deliveries) = 2
    /\ FromWrite(1) /\ FromWrite(2)
    /\ NoneRunning
    /\ Len(Reported) = 1
    /\ \E t \in Threads : pc[t] = "c_ret"

----------------------------------------------------------------------------
(* What the builder's claims speak of. *)

\* The calls of one method among the builder calls made.
CallsOf(name) == SelectSeq(trace, LAMBDA c : c.name = name)

\* The values the caller has added under a header name, in the order of
\* the calls.
HeaderValues(k) ==
    LET sel == SelectSeq(CallsOf("AddHTTPHeader"), LAMBDA c : Canon(c.args[1]) = k)
    IN [i \in 1..Len(sel) |-> sel[i].args[2]]

\* All the values written to a header of a request, in the order written:
\* the writer's own Content-Type, then the caller's.
ValuesWritten(k) ==
    (IF k = "Content-Type" THEN <<"application/json">> ELSE <<>>)
        \o HeaderValues(k)

\* A delivery goroutine has built a request.
Sent == req # NoHeader

\* C22 as stated: a request carries one value for each header name
\* written, the one written last.
C22_LastWriteWins ==
    Sent =>
        \A k \in HeaderKeys :
            req[k] = IF ValuesWritten(k) = <<>> THEN <<>>
                     ELSE <<ValuesWritten(k)[Len(ValuesWritten(k))]>>

\* C22 (as amended): a request carries, for each header name, every value
\* written under it, in the order written: application/json first for
\* Content-Type, then each value the caller added under that name, whatever
\* the case of the name's letters; no value takes the place of another.
C22_HeadersAdditive ==
    Sent => \A k \in HeaderKeys : req[k] = ValuesWritten(k)

\* A request built after the caller added a content type of its own.
C22_Witness ==
    /\ Sent
    /\ req["Content-Type"] = <<"application/json", "text/plain">>

\* All the arguments given to Arg and Args, in the order given.
RECURSIVE Flatten(_)
Flatten(cs) == IF cs = <<>> THEN <<>> ELSE Head(cs).args \o Flatten(Tail(cs))
Supplied == Flatten(SelectSeq(trace, LAMBDA c : c.name \in {"Arg", "Args"}))

\* C23: on a Shell that has had no Command call, the command followed by
\* the argument list is the sequence of all the arguments given to Arg and
\* Args, in the order given; with none given there is no command and no
\* argument.
C23_BuilderAccumulation ==
    CallsOf("Command") = <<>> =>
        IF Supplied = <<>> THEN command = "" /\ args = <<>>
        ELSE <<command>> \o args = Supplied

\* A builder call is made in this step, and the call it is.
Called == Len(trace') = Len(trace) + 1
Latest == trace'[Len(trace')]

\* The last Command call made set a command that is not empty.
Explicit ==
    LET cs == CallsOf("Command")
    IN cs # <<>> /\ cs[Len(cs)].args[1] # ""

\* C24: a call Command(c) makes c the command, whatever the command was,
\* and changes neither the arguments, the directory, the environment, the
\* headers nor the attributes; a call of Arg or Args that comes after a
\* Command(c) with c not empty leaves the command as it is and appends
\* its arguments, in order, to the argument list.
C24_ExplicitCommand ==
    [][Called =>
         /\ Latest.name = "Command" =>
              /\ command' = Latest.args[1]
              /\ UNCHANGED <<args, dir, env, httpHeaders, logKVs>>
         /\ (Latest.name \in {"Arg", "Args"} /\ Explicit) =>
              /\ command' = command
              /\ args' = args \o Latest.args
              /\ UNCHANGED <<dir, env, httpHeaders, logKVs>>]_vars

\* Command called on a Shell that has a command and an argument, with
\* another command, and Arg called after it.
C24_Witness ==
    /\ Len(trace) = 3
    /\ trace[1].name = "Args" /\ Len(trace[1].args) = 2
    /\ trace[2].name = "Command"
    /\ trace[2].args[1] \notin {"", trace[1].args[1]}
    /\ trace[3].name = "Arg"
    /\ command = trace[2].args[1]
    /\ args = <<trace[1].args[2], trace[3].args[1]>>

----------------------------------------------------------------------------
(* More of the Shell. *)

\* A message that is a fixed phrase.
Phrase(text) == <<Ch(text)>>

\* C25: when Exec has run a command and returned, the records it has
\* written are at least two; if the command succeeded the first is an info
\* record saying "executing command" and the second an info record saying
\* "command completed successfully", and if it failed the last is an error
\* record saying "command failed".
C25_ExecLifecycle ==
    (ExecRan /\ Returned /\ sink # "http") =>
        LET recs == LocalRecords
        IN /\ Len(recs) >= 2
           /\ IF result.err = "nil"
              THEN /\ recs[1] = Event("info", Phrase("executing command"))
                   /\ recs[2] = Event("info", Phrase("command completed successfully"))
              ELSE recs[Len(recs)] = Event("error", Phrase("command failed"))

----------------------------------------------------------------------------
(* The writer's invariants. *)

\* No Write and no Close is being executed.
Idle == \A t \in Threads : ~InWrite(t) /\ ~InClose(t)

\* How many of the bytes written come before the buffer's: those up to the
\* last newline written, or up to the last flush of Close if that came
\* later.
LastBreak ==
    LET nl == IF HasNL(written) THEN LastNL(written) ELSE 0
    IN IF flushed > nl THEN flushed ELSE nl

\* C26: whenever no Write and no Close is being executed, the buffer holds
\* the bytes written after the last newline written, or after the last
\* flush of Close if that came later, and so holds no newline.
C26_FrameBufferInvariant ==
    Idle =>
        /\ buffer = SubSeq(written, LastBreak + 1, Len(written))
        /\ ~HasNL(buffer)

\* Bytes left in the buffer by a Write that followed a line and a flush.
C26_Witness ==
    /\ Idle
    /\ HasNL(written)
    /\ flushed > LastNL(written)
    /\ buffer # <<>>

\* The deliveries launched, and those of them that have ended.
Launched == Len(deliveries)
Completed == Cardinality({i \in 1..Len(deliveries) : ~Running(i)})

\* C27: the WaitGroup counter is always the number of deliveries launched
\* less the number that have ended, is never negative, and is zero exactly
\* when every delivery launched has ended; the step that launches a
\* delivery adds one to it, and the step in which a delivery ends, on
\* whichever path, takes one off it.
C27_InFlightCounter ==
    /\ [](/\ wg = Launched - Completed
          /\ wg >= 0
          /\ wg = 0 <=> NoneRunning)
    /\ [][/\ Launched' > Launched => (Launched' = Launched + 1 /\ wg' = wg + 1)
          /\ Ending # {} => wg' = wg - 1
          /\ wg' # wg => (Launched' > Launched \/ Ending # {})]_vars

\* The counter at zero after deliveries of Write and of Close have ended,
\* one of them on an error path.
C27_Witness ==
    /\ wg = 0
    /\ \E i \in 1..Len(deliveries) : FromWrite(i)
    /\ \E i \in 1..Len(deliveries) : FromClose(i)
    /\ Len(Reported) >= 1
    /\ \E t \in Threads : pc[t] = "c_wait"

\* The threads that have appended to the buffer and are framing it.
Framing == {t \in Threads : pc[t] = "w_loop"}

\* C28: with the two readers of Stream (and the logging of Exec) writing
\* one record at a time, at most one Write is between its append and the
\* end of its framing, and it holds the mutex; the buffer holds nothing
\* but the record of that Write; the payloads launched are, one for one
\* and in order, the records written, each a whole record with its newline,
\* all of them once no Write holds the mutex.
C28_FramingExclusive ==
    /\ Cardinality(Framing) <= 1
    /\ \A t \in Framing : mutex = t
    /\ buffer # <<>> => (mutex # NoThread /\ buffer = arg[mutex])
    /\ IsPrefix(Payloads, Lines(written))
    /\ \A i \in 1..Len(deliveries) :
          /\ Len(deliveries[i].data) = 2
          /\ IsRecord(deliveries[i].data[1])
          /\ deliveries[i].data[2] = NL
    /\ AtRest => Payloads = Lines(written)

\* The stdout reader framing its record while the stderr reader, in Write
\* too, waits for the mutex, after an earlier record has been launched.
C28_Witness ==
    /\ Started
    /\ pc["out"] = "w_loop" /\ buffer = arg["out"]
    /\ pc["err"] = "w_lock" /\ arg["err"] # <<>>
    /\ Len(deliveries) >= 1

\* A reader of Stream has left its loop.
Finished(fd) == pc[fd] \in {"r_end", "r_done"}

\* C29: a reader of Stream has left its loop only at the end of its
\* stream: the child has exited, so that nothing more can be written to
\* the pipe, the pipe holds nothing unread and no write of the child waits
\* for room in it.
C29_ReadsToEndOfStream ==
    \A fd \in Fds :
        Finished(fd) =>
            /\ scanErr[fd] = "eof"
            /\ proc \in {"exited", "reaped"}
            /\ pipe[fd] = <<>>
            /\ pend.fd # fd

----------------------------------------------------------------------------
(* Progress. *)

\* The most deliveries a run of the model launches.
MaxDeliveries == 4

\* Exec alone, of the Shell's two ways to run a command.
ExecStep == ExecBegin \/ ExecLogErr \/ ExecLogOut \/ Defer

\* A writer whose clients write a fragment or a line, or a Shell with a
\* command and a writer.
LiveInputs == {<<A>>, <<A, NL>>}

InitLive ==
    /\ InitWriter
    /\ InitThreads
    /\ InitShell
    /\ InitBuilder
    /\ \/ /\ command = ""
          /\ sink = "stdout"
          /\ pc = [t \in Threads |-> IF t \in Clients THEN "idle" ELSE "off"]
          /\ inputs = LiveInputs
       \/ /\ command = "sh"
          /\ sink \in {"multi", "http"}
          /\ pc = [t \in Threads |-> IF t = "main" THEN "idle" ELSE "off"]
          /\ inputs = {}

NextLive == NextW \/ ExecStep

\* A goroutine that can take a step takes one in the end (the Go scheduler
\* leaves no runnable goroutine waiting for ever), and so does a delivery
\* goroutine: its request comes back with a response, an error or the
\* client's timeout.
Fairness ==
    /\ \A t \in Clients \cup {"main"} :
          WF_vars(WriteLock(t) \/ WriteLoop(t) \/ WriteReturn(t) \/ CloseLock(t)
                      \/ CloseAdd(t) \/ CloseWait(t) \/ CloseReturn(t))
    /\ WF_vars(ExecLogErr \/ ExecLogOut \/ Defer)
    /\ \A i \in 1..MaxDeliveries :
          WF_vars(\E o \in Outcomes : i <= Len(deliveries) /\ Deliver(i, o))

SpecLive == InitLive /\ [][NextLive]_vars /\ Fairness

----------------------------------------------------------------------------
(* Static attributes: a Shell is given attributes and then runs Exec.      *)

AttrStep ==
    \/ \E kv \in KVCalls : LogKV(kv[1], kv[2])
    \/ ClearLogKV

InitAttrs ==
    /\ InitWriter
    /\ InitThreads
    /\ InitShell
    /\ InitBuilder
    /\ url = "valid"
    /\ command = "sh"
    /\ sink \in {"stdout", "multi"}
    /\ pc = [t \in Threads |-> IF t = "main" THEN "idle" ELSE "off"]
    /\ inputs = {}

NextAttrs == AttrStep \/ ExecStep \/ WriterStep

SpecAttrs == InitAttrs /\ [][NextAttrs]_vars

\* The attributes a Shell has after the builder calls cs, made in that
\* order on a new Shell.
RECURSIVE AttrsAfter(_)
AttrsAfter(cs) ==
    IF cs = <<>> THEN [k \in LogKeys |-> <<>>]
    ELSE LET before == AttrsAfter(SubSeq(cs, 1, Len(cs) - 1))
             c == cs[Len(cs)]
         IN IF c.name = "LogKV"
            THEN [k \in LogKeys |->
                     IF k = c.args[1] THEN <<c.args[2]>> ELSE before[k]]
            ELSE IF c.name = "ClearLogKV"
                 THEN [k \in LogKeys |-> <<>>]
                 ELSE before

----------------------------------------------------------------------------
(* The writer from end to end.                                             *)

RECURSIVE Concat(_)
Concat(ss) == IF ss = <<>> THEN <<>> ELSE Head(ss) \o Concat(Tail(ss))

\* A Close that no other call overlaps has passed its locked section, and
\* it is the one Close that follows the writes: nothing was flushed before
\* it, or what was flushed was the end of what has been written.
ClosedAfterWrites(t) ==
    /\ FirstFlushDone(t)
    /\ flushed \in {0, Len(written)}

\* C32: while no Close has taken anything off the buffer, the payloads
\* launched so far, in launch order, followed by the bytes still in the
\* buffer are the bytes written so far; and once the Close that follows the
\* writes has passed its flush, the payloads launched, in launch order, are
\* all the bytes written, with nothing left in the buffer.
C32_ByteConservation ==
    /\ ((\A i \in 1..Len(deliveries) : FromWrite(i))
            /\ (\A t \in Threads : pc[t] # "c_add"))
          => Concat(Payloads) \o buffer = written
    /\ \A t \in Threads :
          ClosedAfterWrites(t) => (buffer = <<>> /\ Concat(Payloads) = written)

\* Two writes and then a Close: a line launched by Write and the fragment
\* after it launched by Close.
C32_Witness ==
    \E t \in Threads :
        /\ ClosedAfterWrites(t)
        /\ calls = 3
        /\ Len(deliveries) = 2
        /\ FromWrite(1) /\ FromClose(2)
        /\ Len(written) >= 3

\* C33: while the Close that Exec or Stream defers is running, no other
\* call on the writer is running and none began since it was called: the
\* readers have ended or were never started, every record written has been
\* framed and launched and the buffer is empty; and when that Close has
\* its result, every delivery the invocation launched has ended.
C33_NoWriteOverlapsDrain ==
    /\ InClose("main") =>
          /\ quiet["main"]
          /\ \A t \in Threads \ {"main"} :
                ~InWrite(t) /\ ~InClose(t) /\ pc[t] \in {"off", "r_done"}
          /\ buffer = <<>>
          /\ Payloads = Lines(written)
    /\ pc["main"] = "c_ret" => \A i \in 1..Len(deliveries) : ~Running(i)

\* Stream's Close waiting for the deliveries of two records, one of each
\* reader, both readers having ended.
C33_Witness ==
    /\ op = "Stream"
    /\ pc["main"] = "c_wait"
    /\ ReadersDone
    /\ Len(deliveries) = 2
    /\ Running(1) /\ Running(2)
    /\ Msgs(RemoteRecords, "info") # <<>>
    /\ Msgs(RemoteRecords, "error") # <<>>

\* C34: the payload of a delivery that has been launched and has not ended
\* stays as it was when it was launched, whatever call is made on the
\* writer meanwhile.
C34_PayloadsImmutable ==
    [][\A i \in 1..Len(deliveries) :
          Running(i) => deliveries'[i].data = deliveries[i].data]_vars

----------------------------------------------------------------------------
(* Use after Close: a writer written to again, a Shell run again.          *)

\* Further runs of Exec on a Shell that has run it.
MaxReuse == 1

\* Exec has returned and its caller is about to call it again on the same
\* Shell: the call begins with new locals, the Shell's logger and writer
\* are those the earlier call left.
Again ==
    /\ pc["main"] = "returned"
    /\ calls < MaxReuse
    /\ calls' = calls + 1
    /\ pc' = [pc EXCEPT !["main"] = "idle"]
    /\ op' = "none"
    /\ proc' = "none"
    /\ status' = 0
    /\ result' = NoResult
    /\ emitted' = [fd \in Fds |-> <<>>]
    /\ UNCHANGED <<writerVars, arg, cont, ret, remaining, written, quiet, mark,
                   flushed, confVars, command, sink, pend, pipe, scanBuf,
                   scanErr, swg, ops>>

InitReuse ==
    /\ InitWriter
    /\ InitThreads
    /\ InitShell
    /\ InitBuilder
    /\ \/ /\ command = ""
          /\ sink = "stdout"
          /\ pc = [t \in Threads |-> IF t \in Clients THEN "idle" ELSE "off"]
          /\ inputs = LiveInputs
       \/ /\ command = "sh"
          /\ sink \in {"multi", "http"}
          /\ pc = [t \in Threads |-> IF t = "main" THEN "idle" ELSE "off"]
          /\ inputs = {}

NextReuse == NextW \/ ExecStep \/ Again

SpecReuse == InitReuse /\ [][NextReuse]_vars

\* The Shell's caller is between two calls, or before the first or after
\* the last, on a Shell that has an HTTP writer.
Between == pc["main"] \in {"idle", "returned"} /\ HasWriter

\* The step in which Write launches a delivery.
WriteLaunches ==
    /\ Len(deliveries') = Len(deliveries) + 1
    /\ deliveries'[Len(deliveries')].src = "write"

============================================================================
